---- MODULE Spec2Model ----
(***************************************************************************)
(* RCM-Analyzer client: the calculator component (multi-step form, step    *)
(* navigation, delayed submission, mock calculation) and the calculator    *)
(* service (the duplicated calculation and the ZIP/PIN check).             *)
(*                                                                         *)
(* Numbers.  A JavaScript number is modelled as an exact rational n/d, or  *)
(* as NaN, or as an infinity; floating-point rounding error is not         *)
(* modelled.  Form values that are numbers are kept in hundredths.         *)
(* Form values: '' and null (after FormGroup.reset) are read the same way  *)
(* by every line of the source (required, !value, parseInt, parseFloat,    *)
(* === 'yes', property lookup), and are one model value, Empty.            *)
(***************************************************************************)
EXTENDS Integers, Sequences, FiniteSets, TLC

VARIABLES
    values,             \* calculatorForm.value: control name -> value
    validators,         \* validators currently set on each control
    errors,             \* control.errors: the error keys of the last validity update
    touched,            \* the controls marked as touched
    formErrors,         \* formErrors: control name -> shown message key ("" = none)
    currentStep,        \* currentStep
    isLoading,          \* isLoading
    calculationResult,  \* calculationResult (NoResult = null)
    pending,            \* onSubmit calls waiting on delay(2000), oldest first
    notifications,      \* error notifications now in document.body, by number
    notified,           \* error notifications created so far
    sinceReset,         \* no onSubmit or nextStep call since the last resetCalculator
    formData,           \* argument of a direct generateMockCalculation call
    componentResult,    \* what the component's generateMockCalculation returned
    serviceResult,      \* what the service's generateMockCalculation returned
    sortOrder,          \* the order providers.sort(() => Math.random() - 0.5) leaves
    randomDraws,        \* the Math.random() values drawn by the map over the providers
    pincodeInput,       \* argument of a direct ZIP/PIN validation
    zipErrors,          \* what zipCodeValidator returned for pincodeInput
    locationValid       \* what validateLocation resolved to for pincodeInput

vars == <<values, validators, errors, touched, formErrors, currentStep, isLoading,
          calculationResult, pending, notifications, notified, sinceReset, formData,
          sortOrder, randomDraws, componentResult, serviceResult,
          pincodeInput, zipErrors, locationValid>>

noteVars == <<notifications, notified>>
formVars == <<values, validators, errors, touched, formErrors, currentStep, isLoading,
              calculationResult, pending, noteVars, sinceReset>>
calcVars == <<formData, componentResult, serviceResult, sortOrder, randomDraws>>
zipVars == <<pincodeInput, zipErrors, locationValid>>

----------------------------------------------------------------------------
(* Form values *)

Empty == [t |-> "empty", n |-> 0, k |-> "", s |-> <<>>]
Num(h) == [t |-> "num", n |-> h, k |-> "", s |-> <<>>]
Key(name) == [t |-> "key", n |-> 0, k |-> name, s |-> <<>>]
Str(chars) == IF chars = <<>> THEN Empty ELSE [t |-> "str", n |-> 0, k |-> "", s |-> chars]

\* form numbers are kept in hundredths: Num(Whole(150)) is the number 150
Whole(x) == x * 100

----------------------------------------------------------------------------
(* JavaScript numbers as exact rationals *)

RECURSIVE GCD(_, _)
GCD(a, b) == IF b = 0 THEN a ELSE GCD(b, a % b)

Abs(x) == IF x < 0 THEN -x ELSE x

NaN == [k |-> "nan", n |-> 0, d |-> 1]
Infinity == [k |-> "inf", n |-> 1, d |-> 1]
\* a function object (what a lookup of an inherited property such as
\* 'constructor' yields); ToNumber of it is NaN
FunctionObject == [k |-> "fn", n |-> 0, d |-> 1]

Rat(n, d) ==
    LET g == GCD(Abs(n), d)
    IN  IF g = 0 THEN [k |-> "num", n |-> 0, d |-> 1]
        ELSE [k |-> "num", n |-> n \div g, d |-> d \div g]

IntNum(n) == Rat(n, 1)

IsNum(x) == x.k = "num"

\* ToBoolean: 0 and NaN are falsy, every other number and every object is truthy
Truthy(x) == CASE x.k = "num" -> x.n # 0
               [] x.k = "nan" -> FALSE
               [] OTHER -> TRUE

\* a || b
OrElse(a, b) == IF Truthy(a) THEN a ELSE b

\* ToNumber, applied by every arithmetic operator
ToNumber(x) == IF x.k = "fn" THEN NaN ELSE x

Mul(x, y) ==
    LET a == ToNumber(x)
        b == ToNumber(y)
    IN  CASE a.k = "nan" \/ b.k = "nan" -> NaN
          [] a.k = "inf" \/ b.k = "inf" ->
                IF (a.k = "num" /\ a.n = 0) \/ (b.k = "num" /\ b.n = 0) THEN NaN ELSE Infinity
          [] OTHER ->
                LET g1 == GCD(Abs(a.n), b.d)
                    g2 == GCD(Abs(b.n), a.d)
                IN  IF a.n = 0 \/ b.n = 0 THEN IntNum(0)
                    ELSE Rat((a.n \div g1) * (b.n \div g2), (a.d \div g2) * (b.d \div g1))

Div(x, y) ==
    LET a == ToNumber(x)
        b == ToNumber(y)
    IN  CASE a.k = "nan" \/ b.k = "nan" -> NaN
          [] a.k = "inf" -> IF b.k = "inf" THEN NaN ELSE Infinity
          [] b.k = "inf" -> IntNum(0)
          [] b.n = 0 -> IF a.n = 0 THEN NaN ELSE Infinity
          [] OTHER ->
                IF b.n > 0 THEN Mul(a, Rat(b.d, b.n)) ELSE Mul(a, Rat(-b.d, -b.n))

Sub(x, y) ==
    LET a == ToNumber(x)
        b == ToNumber(y)
    IN  CASE a.k = "nan" \/ b.k = "nan" -> NaN
          [] a.k = "inf" \/ b.k = "inf" -> Infinity
          [] OTHER -> Rat(a.n * b.d - b.n * a.d, a.d * b.d)

Add(x, y) ==
    LET a == ToNumber(x)
        b == ToNumber(y)
    IN  CASE a.k = "nan" \/ b.k = "nan" -> NaN
          [] a.k = "inf" \/ b.k = "inf" -> Infinity
          [] OTHER -> Rat(a.n * b.d + b.n * a.d, a.d * b.d)

Less(a, b) == a.n * b.d < b.n * a.d

\* Math.min and Math.max: NaN if either argument converts to NaN
MathMin(x, y) ==
    LET a == ToNumber(x)
        b == ToNumber(y)
    IN  CASE a.k = "nan" \/ b.k = "nan" -> NaN
          [] a.k = "inf" -> b
          [] b.k = "inf" -> a
          [] OTHER -> IF Less(b, a) THEN b ELSE a

MathMax(x, y) ==
    LET a == ToNumber(x)
        b == ToNumber(y)
    IN  CASE a.k = "nan" \/ b.k = "nan" -> NaN
          [] a.k = "inf" \/ b.k = "inf" -> Infinity
          [] OTHER -> IF Less(a, b) THEN b ELSE a

\* Math.round: the nearest integer, a half rounding up: floor(x + 1/2)
MathRound(x) ==
    LET a == ToNumber(x)
    IN  IF a.k # "num" THEN a ELSE IntNum((2 * a.n + a.d) \div (2 * a.d))

\* Math.round(x * scale) / scale
RoundTo(x, scale) == Div(MathRound(Mul(x, IntNum(scale))), IntNum(scale))

\* parseFloat of a form value: a number parses to itself, '' and null and
\* text that starts with no digit parse to NaN
parseFloat(v) == IF v.t = "num" THEN Rat(v.n, 100) ELSE NaN

\* parseInt of a form value: the digits before the decimal point
parseInt(v) ==
    IF v.t # "num" THEN NaN
    ELSE IF v.n >= 0 THEN IntNum(v.n \div 100) ELSE IntNum(-((-v.n) \div 100))

----------------------------------------------------------------------------
(* The form controls *)

Controls == {"address", "pincode", "specialty",
             "patientVolume", "volumePeriod", "billingAverage", "collectionRate",
             "paymentTime", "knowDenialRate", "denialRate",
             "processingType", "staffWages", "wageType", "staffCount",
             "outsourcePricing", "percentageValue", "perClaimValue", "monthlyValue",
             "hourlyValue"}

\* formData[name]: the value of that control, undefined (read like Empty) for
\* a name that is no control
Field(fd, name) == IF name \in Controls THEN fd[name] ELSE Empty

\* String(value) as a property name, for a value chosen in a select or radio
PropertyName(v) == IF v.t = "key" THEN v.k ELSE ""

----------------------------------------------------------------------------
(* Denial rate lookup *)

\* the own properties of the denialRates object literal, in tenths
denialRates == [family_medicine |-> 72, internal_medicine |-> 81, pediatrics |-> 68,
                cardiology |-> 93, dermatology |-> 59, orthopedics |-> 102,
                dentistry |-> 45, ophthalmology |-> 67, psychiatry |-> 89,
                other |-> 80]

\* property names every object literal inherits from Object.prototype; a
\* lookup of one of them yields a function (or the prototype object)
ObjectPrototypeKeys == {"constructor", "toString", "toLocaleString", "valueOf",
                        "hasOwnProperty", "isPrototypeOf", "propertyIsEnumerable",
                        "__proto__"}

\* the component's estimateDenialRate: denialRates[specialty] || 8.0
estimateDenialRate(specialty) ==
    LET key == PropertyName(specialty)
        found == IF specialty.t = "key" /\ key \in DOMAIN denialRates
                     THEN Rat(denialRates[key], 10)
                 ELSE IF specialty.t = "key" /\ key \in ObjectPrototypeKeys
                     THEN FunctionObject
                 ELSE NaN     \* undefined
    IN  OrElse(found, Rat(80, 10))

\* the service's copy of the table and of the lookup
svc_denialRates == [family_medicine |-> 72, internal_medicine |-> 81, pediatrics |-> 68,
                    cardiology |-> 93, dermatology |-> 59, orthopedics |-> 102,
                    dentistry |-> 45, ophthalmology |-> 67, psychiatry |-> 89,
                    other |-> 80]

svc_estimateDenialRate(specialty) ==
    LET key == PropertyName(specialty)
        found == IF specialty.t = "key" /\ key \in DOMAIN svc_denialRates
                     THEN Rat(svc_denialRates[key], 10)
                 ELSE IF specialty.t = "key" /\ key \in ObjectPrototypeKeys
                     THEN FunctionObject
                 ELSE NaN
    IN  OrElse(found, Rat(80, 10))

----------------------------------------------------------------------------
(* generateMockCalculation (component) *)

\* const denialRate = knowDenialRate === 'yes' ? parseFloat(denialRate) || 8 : estimate
denialRate(fd) ==
    IF fd.knowDenialRate = Key("yes")
        THEN OrElse(parseFloat(fd.denialRate), IntNum(8))
        ELSE estimateDenialRate(fd.specialty)

\* fault: the || 100 default dropped
patientVolume_noDefault(fd) == parseInt(fd.patientVolume)

\* const patientVolume = parseInt(formData.patientVolume) || 100
patientVolume(fd) == OrElse(parseInt(fd.patientVolume), IntNum(100))

\* fault: the daily and weekly factors swapped
monthlyPatients_swapped(fd) ==
    IF fd.volumePeriod = Key("daily") THEN Mul(patientVolume(fd), IntNum(4))
    ELSE IF fd.volumePeriod = Key("weekly") THEN Mul(patientVolume(fd), IntNum(30))
    ELSE patientVolume(fd)

monthlyPatients(fd) ==
    IF fd.volumePeriod = Key("daily") THEN Mul(patientVolume(fd), IntNum(30))
    ELSE IF fd.volumePeriod = Key("weekly") THEN Mul(patientVolume(fd), IntNum(4))
    ELSE patientVolume(fd)

monthlyRevenue(fd) ==
    LET billingAverage == OrElse(parseFloat(fd.billingAverage), IntNum(150))
        collectionRate == OrElse(parseFloat(fd.collectionRate), IntNum(85))
    IN  Mul(Mul(monthlyPatients(fd), billingAverage), Div(collectionRate, IntNum(100)))

totalMonthlyClaims(fd) == monthlyPatients(fd)

\* fault: the pricing value always read from percentageValue
monthlyProcessingCost_firstField(fd) ==
    IF fd.processingType = Key("inhouse") THEN
        LET staffWages == OrElse(parseFloat(fd.staffWages), IntNum(4000))
            staffCount == OrElse(parseInt(fd.staffCount), IntNum(2))
        IN  IF fd.wageType = Key("hourly")
                THEN Mul(Mul(staffWages, IntNum(160)), staffCount)
                ELSE Mul(staffWages, staffCount)
    ELSE IF fd.processingType = Key("outsource") THEN
        LET pricingType == fd.outsourcePricing
            pricingValue == OrElse(parseFloat(fd.percentageValue), IntNum(0))
        IN  CASE pricingType = Key("percentage") ->
                    Mul(monthlyRevenue(fd), Div(pricingValue, IntNum(100)))
              [] pricingType = Key("perClaim") -> Mul(totalMonthlyClaims(fd), pricingValue)
              [] pricingType = Key("monthly") -> pricingValue
              [] pricingType = Key("hourly") -> Mul(pricingValue, IntNum(160))
              [] OTHER -> IntNum(0)
    ELSE IntNum(0)

monthlyProcessingCost(fd) ==
    IF fd.processingType = Key("inhouse") THEN
        LET staffWages == OrElse(parseFloat(fd.staffWages), IntNum(4000))
            staffCount == OrElse(parseInt(fd.staffCount), IntNum(2))
        IN  IF fd.wageType = Key("hourly")
                THEN Mul(Mul(staffWages, IntNum(160)), staffCount)
                ELSE Mul(staffWages, staffCount)
    ELSE IF fd.processingType = Key("outsource") THEN
        LET pricingType == fd.outsourcePricing
            pricingValue == OrElse(parseFloat(Field(fd, PropertyName(pricingType) \o "Value")),
                                   IntNum(0))
        IN  CASE pricingType = Key("percentage") ->
                    Mul(monthlyRevenue(fd), Div(pricingValue, IntNum(100)))
              [] pricingType = Key("perClaim") -> Mul(totalMonthlyClaims(fd), pricingValue)
              [] pricingType = Key("monthly") -> pricingValue
              [] pricingType = Key("hourly") -> Mul(pricingValue, IntNum(160))
              [] OTHER -> IntNum(0)
    ELSE IntNum(0)

costPerClaim(fd) == Div(monthlyProcessingCost(fd), totalMonthlyClaims(fd))

averageClaimPercentage(fd) ==
    MathMax(IntNum(60), MathMin(IntNum(98), Sub(IntNum(100), denialRate(fd))))

benchmarkMetrics == [berserkClaimPercentage |-> Rat(965, 10),
                     berserkCostPerClaim |-> Rat(1250, 100),
                     industryAverage |-> Rat(920, 10)]

\* what a lookup of an inherited property yields where a display name is expected
InheritedMember == "[inherited member]"

specialtyMap == [family_medicine |-> "Family Medicine",
                 internal_medicine |-> "Internal Medicine", pediatrics |-> "Pediatrics",
                 cardiology |-> "Cardiology", dermatology |-> "Dermatology",
                 orthopedics |-> "Orthopedics", dentistry |-> "Dentistry",
                 ophthalmology |-> "Ophthalmology", psychiatry |-> "Psychiatry",
                 other |-> "Other Specialty"]

\* the component's formatSpecialty: specialtyMap[specialty] || 'General Practice'
formatSpecialty(specialty) ==
    LET key == PropertyName(specialty)
    IN  IF specialty.t = "key" /\ key \in DOMAIN specialtyMap THEN specialtyMap[key]
        ELSE IF specialty.t = "key" /\ key \in ObjectPrototypeKeys THEN InheritedMember
        ELSE "General Practice"

Provider(name, npi, specialty, ratio, address) ==
    [name |-> name, npiNumber |-> npi, specialty |-> specialty,
     claimSuccessRatio |-> ratio, address |-> address]

\* the component's list: four providers, returned as written
nearbyProviders(fd) ==
    LET specialty == formatSpecialty(fd.specialty)
    IN  << Provider("Regional Medical Center", "1234567890", specialty, Rat(942, 10),
                    "Downtown Medical District"),
           Provider("Community Health Partners", "2345678901", specialty, Rat(918, 10),
                    "Suburban Healthcare Plaza"),
           Provider("Advanced Care Clinic", "3456789012", specialty, Rat(895, 10),
                    "Medical Arts Building"),
           Provider("Premier Healthcare Group", "4567890123", specialty, Rat(961, 10),
                    "University Medical Campus") >>

generateMockCalculation(fd) ==
    [userMetrics |->
        [averageClaimPercentage |-> RoundTo(averageClaimPercentage(fd), 10),
         claimDenialRate |-> RoundTo(denialRate(fd), 10),
         costPerClaim |-> RoundTo(costPerClaim(fd), 100),
         totalMonthlyClaims |-> MathRound(totalMonthlyClaims(fd)),
         monthlyRevenue |-> MathRound(monthlyRevenue(fd)),
         monthlyProcessingCost |-> MathRound(monthlyProcessingCost(fd))],
     benchmarkMetrics |-> benchmarkMetrics,
     nearbyProviders |-> nearbyProviders(fd)]

----------------------------------------------------------------------------
(* generateMockCalculation (service) *)

svc_specialtyMap == [specialtyMap EXCEPT !.other = "General Practice"]

\* the service's formatSpecialty
svc_formatSpecialty(specialty) ==
    LET key == PropertyName(specialty)
    IN  IF specialty.t = "key" /\ key \in DOMAIN svc_specialtyMap THEN svc_specialtyMap[key]
        ELSE IF specialty.t = "key" /\ key \in ObjectPrototypeKeys THEN InheritedMember
        ELSE "General Practice"

\* the service's list: five providers
svc_providers(specialty) ==
    LET name == svc_formatSpecialty(specialty)
    IN  << Provider("Regional Medical Center", "1234567890", name, Rat(942, 10),
                    "Downtown Medical District"),
           Provider("Community Health Partners", "2345678901", name, Rat(918, 10),
                    "Suburban Healthcare Plaza"),
           Provider("Advanced Care Clinic", "3456789012", name, Rat(895, 10),
                    "Medical Arts Building"),
           Provider("Premier Healthcare Group", "4567890123", name, Rat(961, 10),
                    "University Medical Campus"),
           Provider("Integrated Health Solutions", "5678901234", name, Rat(887, 10),
                    "Central Business District") >>

\* generateNearbyProviders: the list sorted with a random comparator (any
\* order may result: order[i] is the entry that ends at place i), cut to the
\* first four, each claimSuccessRatio moved by (Math.random() - 0.5) * 4 and
\* rounded to one decimal
generateNearbyProviders(specialty, order, draws) ==
    LET providers == svc_providers(specialty)
        sorted == [i \in 1..5 |-> providers[order[i]]]
    IN  [i \in 1..4 |->
            [sorted[i] EXCEPT !.claimSuccessRatio =
                RoundTo(Add(@, Mul(Sub(draws[i], Rat(1, 2)), IntNum(4))), 10)]]

svc_generateMockCalculation(fd, order, draws) ==
    LET patientVolume_ == OrElse(parseInt(fd.patientVolume), IntNum(100))
        billingAverage == OrElse(parseFloat(fd.billingAverage), IntNum(150))
        collectionRate == OrElse(parseFloat(fd.collectionRate), IntNum(85))
        denialRate_ == IF fd.knowDenialRate = Key("yes")
                           THEN OrElse(parseFloat(fd.denialRate), IntNum(8))
                           ELSE svc_estimateDenialRate(fd.specialty)
        monthlyPatients_ ==
            IF fd.volumePeriod = Key("daily") THEN Mul(patientVolume_, IntNum(30))
            ELSE IF fd.volumePeriod = Key("weekly") THEN Mul(patientVolume_, IntNum(4))
            ELSE patientVolume_
        monthlyRevenue_ == Mul(Mul(monthlyPatients_, billingAverage),
                               Div(collectionRate, IntNum(100)))
        totalMonthlyClaims_ == monthlyPatients_
        monthlyProcessingCost_ ==
            IF fd.processingType = Key("inhouse") THEN
                LET staffWages == OrElse(parseFloat(fd.staffWages), IntNum(4000))
                    staffCount == OrElse(parseInt(fd.staffCount), IntNum(2))
                IN  IF fd.wageType = Key("hourly")
                        THEN Mul(Mul(staffWages, IntNum(160)), staffCount)
                        ELSE Mul(staffWages, staffCount)
            ELSE IF fd.processingType = Key("outsource") THEN
                LET pricingType == fd.outsourcePricing
                    pricingValue ==
                        OrElse(parseFloat(Field(fd, PropertyName(pricingType) \o "Value")),
                               IntNum(0))
                IN  CASE pricingType = Key("percentage") ->
                            Mul(monthlyRevenue_, Div(pricingValue, IntNum(100)))
                      [] pricingType = Key("perClaim") -> Mul(totalMonthlyClaims_, pricingValue)
                      [] pricingType = Key("monthly") -> pricingValue
                      [] pricingType = Key("hourly") -> Mul(pricingValue, IntNum(160))
                      [] OTHER -> IntNum(0)
            ELSE IntNum(0)
        costPerClaim_ == Div(monthlyProcessingCost_, totalMonthlyClaims_)
        averageClaimPercentage_ ==
            MathMax(IntNum(60), MathMin(IntNum(98), Sub(IntNum(100), denialRate_)))
    IN  [userMetrics |->
            [averageClaimPercentage |-> RoundTo(averageClaimPercentage_, 10),
             claimDenialRate |-> RoundTo(denialRate_, 10),
             costPerClaim |-> RoundTo(costPerClaim_, 100),
             totalMonthlyClaims |-> MathRound(totalMonthlyClaims_),
             monthlyRevenue |-> MathRound(monthlyRevenue_),
             monthlyProcessingCost |-> MathRound(monthlyProcessingCost_)],
         benchmarkMetrics |-> [berserkClaimPercentage |-> Rat(965, 10),
                               berserkCostPerClaim |-> Rat(1250, 100),
                               industryAverage |-> Rat(920, 10)],
         nearbyProviders |-> generateNearbyProviders(fd.specialty, order, draws)]

----------------------------------------------------------------------------
(* ZIP/PIN validation *)

Digits == {"0", "1", "2", "3", "4", "5", "6", "7", "8", "9"}

AllDigits(s, from, to) == \A i \in from..to : s[i] \in Digits

\* fault: the pattern without its closing anchor
usZipPattern_unanchored(s) ==
    \/ Len(s) >= 5 /\ AllDigits(s, 1, 5)
    \/ Len(s) >= 10 /\ AllDigits(s, 1, 5) /\ s[6] = "-" /\ AllDigits(s, 7, 10)

\* /^\d{5}(-\d{4})?$/.test(s)
usZipPattern(s) ==
    \/ Len(s) = 5 /\ AllDigits(s, 1, 5)
    \/ Len(s) = 10 /\ AllDigits(s, 1, 5) /\ s[6] = "-" /\ AllDigits(s, 7, 10)

\* /^\d{6}$/.test(s)
indianPinPattern(s) == Len(s) = 6 /\ AllDigits(s, 1, 6)

\* the characters a regular expression's test() sees: String(value)
TestString(v) == IF v.t = "str" THEN v.s ELSE <<>>

\* the component's validator: null (no error, {}) or { pattern: true }
zipCodeValidator(v) ==
    IF v = Empty THEN {}
    ELSE IF usZipPattern(TestString(v)) \/ indianPinPattern(TestString(v)) THEN {}
    ELSE {"pattern"}

\* the service's validateLocation
validateLocation(v) == usZipPattern(TestString(v)) \/ indianPinPattern(TestString(v))

----------------------------------------------------------------------------
(* The form as createForm builds it *)

createForm ==
    [address |-> Empty, pincode |-> Empty, specialty |-> Empty,
     patientVolume |-> Num(Whole(100)), volumePeriod |-> Key("monthly"),
     billingAverage |-> Empty, collectionRate |-> Num(Whole(85)),
     paymentTime |-> Num(Whole(30)), knowDenialRate |-> Empty,
     denialRate |-> Num(Whole(8)),
     processingType |-> Empty,
     staffWages |-> Empty, wageType |-> Key("monthly"), staffCount |-> Empty,
     outsourcePricing |-> Empty, percentageValue |-> Empty, perClaimValue |-> Empty,
     monthlyValue |-> Empty, hourlyValue |-> Empty]

\* the validators createForm gives each control
createValidators ==
    [c \in Controls |->
        CASE c = "address" -> {"required", "minlength"}
          [] c = "pincode" -> {"required", "zipCode"}
          [] c = "specialty" -> {"required"}
          [] c = "patientVolume" -> {"required", "min1"}
          [] c = "billingAverage" -> {"required", "minCent"}
          [] c = "collectionRate" -> {"required", "min1", "max100"}
          [] c = "paymentTime" -> {"required", "min1"}
          [] c = "processingType" -> {"required"}
          [] OTHER -> {}]

NoResult == <<>>

\* Validators.required, minLength(10), min(1), min(0.01), min(0), max(100) and
\* zipCodeValidator run on a value: the error keys
RunValidators(vs, v) ==
    (IF "required" \in vs /\ v = Empty THEN {"required"} ELSE {})
    \cup (IF "minlength" \in vs /\ v.t = "str" /\ Len(v.s) < 10 THEN {"minlength"} ELSE {})
    \cup (IF "min1" \in vs /\ v.t = "num" /\ v.n < Whole(1) THEN {"min"} ELSE {})
    \cup (IF "minCent" \in vs /\ v.t = "num" /\ v.n < 1 THEN {"min"} ELSE {})
    \cup (IF "min0" \in vs /\ v.t = "num" /\ v.n < 0 THEN {"min"} ELSE {})
    \cup (IF "max100" \in vs /\ v.t = "num" /\ v.n > Whole(100) THEN {"max"} ELSE {})
    \cup (IF "zipCode" \in vs THEN zipCodeValidator(v) ELSE {})

\* the state after construction and ngOnInit
FormInit ==
    /\ values = createForm
    /\ validators = createValidators
    /\ errors = [c \in Controls |-> RunValidators(createValidators[c], createForm[c])]
    /\ touched = {}
    /\ formErrors = [c \in Controls |-> ""]
    /\ currentStep = 1
    /\ isLoading = FALSE
    /\ calculationResult = NoResult
    /\ pending = <<>>
    /\ notifications = {}
    /\ notified = 0
    /\ sinceReset = FALSE

\* the order that leaves the list as written, and draws that move no ratio
WrittenOrder == [i \in 1..5 |-> i]
MiddleDraws == [i \in 1..4 |-> Rat(1, 2)]

CalcIdle ==
    /\ formData = createForm /\ componentResult = NoResult /\ serviceResult = NoResult
    /\ sortOrder = WrittenOrder /\ randomDraws = MiddleDraws
ZipIdle == pincodeInput = Empty /\ zipErrors = <<>> /\ locationValid = <<>>

----------------------------------------------------------------------------
(* The calculation applied to form contents: the values the form holds when *)
(* the delayed part of onSubmit reads it, or any formData handed to the     *)
(* service's calculateMetrics.                                              *)

SpecialtyKeys == DOMAIN denialRates \cup {"neurology", "constructor", "toString"}

DenialInputs ==
    { [createForm EXCEPT !.knowDenialRate = know, !.denialRate = rate, !.specialty = spec] :
        know \in {Empty, Key("yes"), Key("no")},
        rate \in {Empty, Num(0), Num(725), Num(Whole(8)), Num(Whole(45)), Num(Whole(100)),
                  Num(Whole(150)), Num(-Whole(5))},
        spec \in {Empty} \cup {Key(k) : k \in SpecialtyKeys} }

RevenueInputs ==
    { [createForm EXCEPT !.patientVolume = volume, !.volumePeriod = period,
                         !.billingAverage = billing, !.collectionRate = rate] :
        volume \in {Empty, Num(0), Num(Whole(1)), Num(250), Num(Whole(100))},
        period \in {Empty, Key("monthly"), Key("daily"), Key("weekly")},
        billing \in {Empty, Num(1), Num(50), Num(Whole(150))},
        rate \in {Empty, Num(Whole(1)), Num(5050), Num(Whole(85)), Num(Whole(100))} }

CostInputs ==
    { [createForm EXCEPT !.patientVolume = volume, !.billingAverage = Num(Whole(150)),
                         !.processingType = ptype, !.staffWages = wages,
                         !.wageType = wtype, !.staffCount = count,
                         !.outsourcePricing = pricing, !.percentageValue = pv[1],
                         !.perClaimValue = pv[2], !.monthlyValue = pv[3],
                         !.hourlyValue = pv[4]] :
        volume \in {Empty, Num(0), Num(Whole(100))},
        ptype \in {Empty, Key("inhouse"), Key("outsource")},
        wages \in {Empty, Num(1), Num(1050), Num(Whole(4000))},
        wtype \in {Key("monthly"), Key("hourly")},
        count \in {Empty, Num(150), Num(Whole(2))},
        pricing \in {Empty, Key("percentage"), Key("perClaim"), Key("monthly"), Key("hourly")},
        pv \in {Empty, Num(550)} \X {Empty, Num(Whole(5))} \X {Empty, Num(Whole(300))}
               \X {Empty, Num(2025)} }

CalcInputs == DenialInputs \cup RevenueInputs \cup CostInputs

\* the random outcomes explored together with the wide form contents
CalcOrders == {WrittenOrder, [i \in 1..5 |-> 6 - i]}

CalcInit ==
    /\ FormInit /\ ZipIdle
    /\ formData \in CalcInputs
    /\ sortOrder \in CalcOrders
    /\ randomDraws = MiddleDraws
    /\ componentResult = NoResult
    /\ serviceResult = NoResult

\* one call of the component's and one of the service's generateMockCalculation
Calculate ==
    /\ componentResult = NoResult
    /\ componentResult' = <<generateMockCalculation(formData)>>
    /\ serviceResult' = <<svc_generateMockCalculation(formData, sortOrder, randomDraws)>>
    /\ UNCHANGED <<formData, sortOrder, randomDraws, formVars, zipVars>>

CalcNext == Calculate

SpecCalc == CalcInit /\ [][CalcNext]_vars

\* the calculation under every outcome of the shuffle and a range of draws
RandomValues == {Rat(0, 1), Rat(1, 8), Rat(399, 400)}

ProviderInputs ==
    { [createForm EXCEPT !.specialty = spec] :
        spec \in {Empty, Key("cardiology"), Key("other")} }

ProvidersInit ==
    /\ FormInit /\ ZipIdle
    /\ formData \in ProviderInputs
    /\ sortOrder \in Permutations(1..5)
    /\ randomDraws \in [1..4 -> RandomValues]
    /\ componentResult = NoResult
    /\ serviceResult = NoResult

SpecProviders == ProvidersInit /\ [][CalcNext]_vars

----------------------------------------------------------------------------
(* The two ZIP/PIN checks applied to a string *)

MaxZipLen == 10

ZipAlphabet == {"1", "-", "a"}

ZipStrings == UNION { [1..n -> ZipAlphabet] : n \in 0..MaxZipLen }

ZipInit ==
    /\ FormInit /\ CalcIdle
    /\ pincodeInput \in {Str(s) : s \in ZipStrings}
    /\ zipErrors = <<>>
    /\ locationValid = <<>>

ValidatePincode ==
    /\ zipErrors = <<>>
    /\ zipErrors' = <<zipCodeValidator(pincodeInput)>>
    /\ locationValid' = <<validateLocation(pincodeInput)>>
    /\ UNCHANGED <<pincodeInput, formVars, calcVars>>

ZipNext == ValidatePincode

SpecZip == ZipInit /\ [][ZipNext]_vars

----------------------------------------------------------------------------
(* The calculator component *)

\* the error keys for which validationMessages has a text, per control
validationMessages ==
    [c \in Controls |->
        CASE c = "address" -> {"required", "minlength"}
          [] c = "pincode" -> {"required", "pattern"}
          [] c = "specialty" -> {"required"}
          [] c = "patientVolume" -> {"required", "min"}
          [] c = "billingAverage" -> {"required", "min"}
          [] c = "collectionRate" -> {"required", "min", "max"}
          [] c = "paymentTime" -> {"required", "min"}
          [] c = "processingType" -> {"required"}
          [] OTHER -> {}]

\* control.valid
Valid(errs, c) == errs[c] = {}

\* calculatorForm.valid
FormValid == \A c \in Controls : Valid(errors, c)

\* updateFormErrors: the message of the first error key that has one, for
\* each control that is invalid and touched
updateFormErrors(errs, tch) ==
    [c \in Controls |->
        IF ~Valid(errs, c) /\ c \in tch /\ errs[c] \cap validationMessages[c] # {}
            THEN CHOOSE key \in errs[c] \cap validationMessages[c] : TRUE
            ELSE ""]

StaffFields == {"staffWages", "staffCount"}
PricingFields == {"percentageValue", "perClaimValue", "monthlyValue", "hourlyValue"}

\* updateProcessingValidators
updateProcessingValidators(vd, processingType) ==
    IF processingType = Key("inhouse")
        THEN [vd EXCEPT !["staffWages"] = {"required", "minCent"},
                        !["staffCount"] = {"required", "min1"}]
        ELSE [vd EXCEPT !["staffWages"] = {}, !["staffCount"] = {}]

\* updateOutsourcePricingValidators
updateOutsourcePricingValidators(vd, pricingType) ==
    LET cleared == [c \in Controls |-> IF c \in PricingFields THEN {} ELSE vd[c]]
        field == PropertyName(pricingType) \o "Value"
    IN  IF pricingType # Empty /\ field \in Controls
            THEN [cleared EXCEPT ![field] =
                    IF pricingType = Key("percentage")
                        THEN {"required", "minCent", "max100"}
                        ELSE {"required", "minCent"}]
            ELSE cleared

\* the knowDenialRate subscription
updateDenialRateValidators(vd, know) ==
    IF know = Key("yes")
        THEN [vd EXCEPT !["denialRate"] = {"required", "min0", "max100"}]
        ELSE [vd EXCEPT !["denialRate"] = {}]

\* the valueChanges subscriptions of setupFormValidation, run for a new
\* value v of control c: the validators afterwards
Subscriptions(vd, c, v) ==
    CASE c = "processingType" -> updateProcessingValidators(vd, v)
      [] c = "outsourcePricing" -> updateOutsourcePricingValidators(vd, v)
      [] c = "knowDenialRate" -> updateDenialRateValidators(vd, v)
      [] OTHER -> vd

\* the controls whose updateValueAndValidity runs when control c gets a value
Revalidated(c) ==
    {c} \cup (CASE c = "processingType" -> StaffFields
                [] c = "outsourcePricing" -> PricingFields
                [] c = "knowDenialRate" -> {"denialRate"}
                [] OTHER -> {})

\* a control gets a new value (typing, a select, setProcessingType,
\* setOutsourcePricing): setValue, the subscriptions, updateFormErrors
Edit(c, v) ==
    LET vals == [values EXCEPT ![c] = v]
        vd == Subscriptions(validators, c, v)
        errs == [x \in Controls |->
                    IF x \in Revalidated(c) THEN RunValidators(vd[x], vals[x])
                    ELSE errors[x]]
    IN  /\ values' = vals
        /\ validators' = vd
        /\ errors' = errs
        /\ formErrors' = updateFormErrors(errs, touched)
        /\ UNCHANGED <<touched, currentStep, isLoading, calculationResult, pending,
                       noteVars, sinceReset, calcVars, zipVars>>

\* fault: pincode missing from the fields of step 1
getStepFields_noPincode(step) ==
    CASE step = 1 -> {"address", "specialty"}
      [] step = 2 -> {"patientVolume", "billingAverage", "collectionRate", "paymentTime"}
      [] step = 3 -> {"processingType"}
      [] OTHER -> {}

getStepFields(step) ==
    CASE step = 1 -> {"address", "pincode", "specialty"}
      [] step = 2 -> {"patientVolume", "billingAverage", "collectionRate", "paymentTime"}
      [] step = 3 -> {"processingType"}
      [] OTHER -> {}

\* validateCurrentStep: its return value (the fields are marked by nextStep)
validateCurrentStep == \A c \in getStepFields(currentStep) : Valid(errors, c)

\* isStep1Valid, isStep2Valid, isStep3Valid
isStep1Valid ==
    Valid(errors, "address") /\ Valid(errors, "pincode") /\ Valid(errors, "specialty")

isStep2Valid ==
    LET requiredFields == {"patientVolume", "volumePeriod", "billingAverage",
                           "collectionRate", "paymentTime", "knowDenialRate"}
        baseValid == \A field \in requiredFields : Valid(errors, field)
    IN  IF values["knowDenialRate"] = Key("yes")
            THEN baseValid /\ Valid(errors, "denialRate")
            ELSE baseValid

isStep3Valid ==
    LET processingTypeValid == Valid(errors, "processingType")
    IN  IF values["processingType"] = Key("inhouse")
            THEN processingTypeValid /\ Valid(errors, "staffWages")
                 /\ Valid(errors, "wageType") /\ Valid(errors, "staffCount")
        ELSE IF values["processingType"] = Key("outsource")
            THEN processingTypeValid /\ Valid(errors, "outsourcePricing")
        ELSE processingTypeValid

\* the largest step the model lets nextStep reach
MaxStep == 4

nextStep ==
    /\ currentStep < MaxStep
    /\ touched' = touched \cup getStepFields(currentStep)
    /\ currentStep' = IF validateCurrentStep THEN currentStep + 1 ELSE currentStep
    /\ sinceReset' = FALSE
    /\ UNCHANGED <<values, validators, errors, formErrors, isLoading, calculationResult,
                   pending, noteVars, calcVars, zipVars>>

previousStep ==
    /\ currentStep' = IF currentStep > 1 THEN currentStep - 1 ELSE currentStep
    /\ UNCHANGED <<values, validators, errors, touched, formErrors, isLoading,
                   calculationResult, pending, noteVars, sinceReset, calcVars, zipVars>>

\* the form values after reset() and patchValue({volumePeriod, wageType})
resetValues ==
    [c \in Controls |-> IF c \in {"volumePeriod", "wageType"} THEN Key("monthly") ELSE Empty]

resetCalculator ==
    LET vd == updateOutsourcePricingValidators(
                  updateProcessingValidators(
                      updateDenialRateValidators(validators, Empty), Empty), Empty)
        errs == [c \in Controls |-> RunValidators(vd[c], resetValues[c])]
    IN  /\ calculationResult' = NoResult
        /\ currentStep' = 1
        /\ values' = resetValues
        /\ validators' = vd
        /\ errors' = errs
        /\ touched' = {}
        /\ formErrors' = updateFormErrors(errs, {})
        /\ sinceReset' = TRUE
        /\ UNCHANGED <<isLoading, pending, noteVars, calcVars, zipVars>>

\* the most onSubmit calls the model lets wait on their delay at once
MaxPending == 2

\* fault: onSubmit without its validity check
onSubmit_unchecked ==
    /\ Len(pending) < MaxPending
    /\ isLoading' = TRUE
    /\ pending' = Append(pending, values)
    /\ sinceReset' = FALSE
    /\ UNCHANGED <<values, validators, errors, touched, formErrors, currentStep,
                   calculationResult, noteVars, calcVars, zipVars>>

\* onSubmit up to its await: an invalid form is marked touched and nothing
\* else happens; a valid form sets isLoading and starts delay(2000).  The
\* entry in pending remembers the form values at the call.
onSubmit ==
    IF ~FormValid
        THEN /\ touched' = Controls
             /\ sinceReset' = FALSE
             /\ UNCHANGED <<values, validators, errors, formErrors, currentStep, isLoading,
                            calculationResult, pending, noteVars, calcVars, zipVars>>
        ELSE /\ Len(pending) < MaxPending
             /\ isLoading' = TRUE
             /\ pending' = Append(pending, values)
             /\ sinceReset' = FALSE
             /\ UNCHANGED <<values, validators, errors, touched, formErrors, currentStep,
                            calculationResult, noteVars, calcVars, zipVars>>

\* the rest of onSubmit, run when the oldest delay elapses: the form is read
\* now, the result is stored, isLoading is cleared
delayElapsed ==
    /\ pending # <<>>
    /\ pending' = Tail(pending)
    /\ UNCHANGED <<values, validators, errors, touched, formErrors, currentStep,
                   noteVars, sinceReset, calcVars, zipVars>>
    /\ calculationResult' = <<generateMockCalculation(values)>>
    /\ isLoading' = FALSE

\* the most error notifications the model lets handleCalculationError create
MaxNotifications == 2

\* fault: the catch path without the finally block
calculationThrows_noFinally ==
    /\ pending # <<>>
    /\ notified < MaxNotifications
    /\ pending' = Tail(pending)
    /\ notified' = notified + 1
    /\ notifications' = notifications \cup {notified + 1}
    /\ UNCHANGED <<values, validators, errors, touched, formErrors, currentStep,
                   isLoading, calculationResult, sinceReset, calcVars, zipVars>>

\* the rest of onSubmit when the awaited calculation rejects: nothing is
\* stored, handleCalculationError appends a notification to document.body
\* and starts its 5000 ms removal timer, the finally block clears isLoading
calculationThrows ==
    /\ pending # <<>>
    /\ notified < MaxNotifications
    /\ isLoading' = FALSE
    /\ pending' = Tail(pending)
    /\ notified' = notified + 1
    /\ notifications' = notifications \cup {notified + 1}
    /\ UNCHANGED <<values, validators, errors, touched, formErrors, currentStep,
                   calculationResult, sinceReset, calcVars, zipVars>>

\* the 5000 ms timer of the oldest notification fires: errorMessage.remove()
notificationRemoved ==
    /\ notifications # {}
    /\ notifications' =
           notifications \ {CHOOSE n \in notifications : \A m \in notifications : n <= m}
    /\ UNCHANGED <<values, validators, errors, touched, formErrors, currentStep, isLoading,
                   calculationResult, pending, notified, sinceReset, calcVars, zipVars>>

----------------------------------------------------------------------------
(* Specifications *)

LongAddress == <<"1", "2", " ", "M", "a", "i", "n", " ", "S", "t">>

\* the edits explored with the synchronous handlers: every control that has
\* or can get a validator can be made valid, and the conditional ones invalid
FormEdits ==
    {<<"address", Str(LongAddress)>>,
     <<"pincode", Str(<<"1", "1", "1", "1", "1">>)>>, <<"pincode", Str(<<"1", "1">>)>>,
     <<"specialty", Key("cardiology")>>,
     <<"billingAverage", Num(Whole(200))>>,
     <<"knowDenialRate", Key("yes")>>,
     <<"denialRate", Empty>>,
     <<"processingType", Key("inhouse")>>, <<"processingType", Key("outsource")>>,
     <<"staffWages", Num(Whole(4000))>>, <<"staffCount", Num(Whole(2))>>,
     <<"outsourcePricing", Key("percentage")>>,
     <<"percentageValue", Num(Whole(5))>>}

\* the edits explored together with submissions: a form can be completed,
\* and patientVolume changed while a submission waits
SubmitEdits ==
    {<<"address", Str(LongAddress)>>,
     <<"pincode", Str(<<"1", "1", "1", "1", "1">>)>>,
     <<"specialty", Key("cardiology")>>,
     <<"billingAverage", Num(Whole(200))>>,
     <<"processingType", Key("outsource")>>,
     <<"patientVolume", Num(Whole(50))>>}

Init == FormInit /\ CalcIdle /\ ZipIdle

\* the step navigation, the reset and form edits
FormNext ==
    \/ \E e \in FormEdits : Edit(e[1], e[2])
    \/ nextStep
    \/ previousStep
    \/ resetCalculator

SpecForm == Init /\ [][FormNext]_vars

\* the whole component
Next ==
    \/ \E e \in SubmitEdits : Edit(e[1], e[2])
    \/ nextStep
    \/ previousStep
    \/ resetCalculator
    \/ onSubmit
    \/ delayElapsed

Spec == Init /\ [][Next]_vars

\* submissions whose calculation may reject.  generateMockCalculation has no
\* statement that throws, so the rejection is an assumption made here only,
\* to exercise the catch and finally blocks.  Timers fire: a pending delay
\* elapses, and a notification's removal timer runs.
LiveEdits == {e \in SubmitEdits : e[1] # "patientVolume"}

LiveNext ==
    \/ \E e \in LiveEdits : Edit(e[1], e[2])
    \/ resetCalculator
    \/ onSubmit
    \/ delayElapsed
    \/ calculationThrows
    \/ notificationRemoved

\* the step in which the continuation of the oldest pending onSubmit runs
TimerFires == pending # <<>> /\ pending' = Tail(pending)

\* WF_vars(delayElapsed \/ calculationThrows) written out: that action is
\* enabled exactly when pending # <<>>, and its steps are the TimerFires steps
DelaysElapse == []<>(pending = <<>>) \/ []<><<TimerFires>>_vars

SpecLive ==
    /\ Init
    /\ [][LiveNext]_vars
    /\ DelaysElapse
    /\ WF_vars(notificationRemoved)

----------------------------------------------------------------------------
(* Claims about the calculation (SpecCalc) *)

Calculated == componentResult # NoResult
ComponentMetrics == componentResult[1].userMetrics
ServiceMetrics == serviceResult[1].userMetrics

Between(x, lo, hi) == IsNum(x) /\ ~Less(x, IntNum(lo)) /\ ~Less(IntNum(hi), x)

\* clamp(x, 60, 98) for a number x
Clamp6098(x) ==
    IF Less(x, IntNum(60)) THEN IntNum(60) ELSE IF Less(IntNum(98), x) THEN IntNum(98) ELSE x

\* the value of a numeric form field, as a number
Value(v) == Rat(v.n, 100)

\* C3 (as claimed): for every form input the result's averageClaimPercentage
\* is a number within [60, 98], and it is clamp(100 - denial rate, 60, 98),
\* read here in the claim's favour: of the denial rate the calculation uses,
\* to the result's one decimal.
C3_ClaimPercentageClamped ==
    Calculated =>
        /\ Between(ComponentMetrics.averageClaimPercentage, 60, 98)
        /\ IsNum(ToNumber(denialRate(formData)))
        /\ ComponentMetrics.averageClaimPercentage =
               RoundTo(Clamp6098(Sub(IntNum(100), denialRate(formData))), 10)

\* C4 (as claimed): with knowDenialRate = 'yes' and a denialRate from 0 to
\* 100, claimDenialRate is the user-supplied value (to the result's one
\* decimal); with any other flag it is the lookup's value for the specialty,
\* whatever denialRate holds.  Component and service alike.
C4_UserDenialRateUsed ==
    Calculated =>
        LET rate == formData.denialRate
            expected ==
                IF formData.knowDenialRate = Key("yes")
                    THEN RoundTo(Value(rate), 10)
                    ELSE RoundTo(estimateDenialRate(formData.specialty), 10)
        IN  (formData.knowDenialRate = Key("yes")
                => rate.t = "num" /\ rate.n >= 0 /\ rate.n <= Whole(100))
            => /\ ComponentMetrics.claimDenialRate = expected
               /\ ServiceMetrics.claimDenialRate = expected

\* the denial rates the specification documents, in tenths; 8.0 for any other key
C5_Documented(specialty) ==
    LET k == PropertyName(specialty)
    IN  CASE k = "family_medicine" -> Rat(72, 10)
          [] k = "internal_medicine" -> Rat(81, 10)
          [] k = "pediatrics" -> Rat(68, 10)
          [] k = "cardiology" -> Rat(93, 10)
          [] k = "dermatology" -> Rat(59, 10)
          [] k = "orthopedics" -> Rat(102, 10)
          [] k = "dentistry" -> Rat(45, 10)
          [] k = "ophthalmology" -> Rat(67, 10)
          [] k = "psychiatry" -> Rat(89, 10)
          [] OTHER -> Rat(80, 10)

\* C5 (as claimed): the lookup returns the documented constant for each of
\* the 10 specialty keys and 8.0 for every other key, an empty one included,
\* in the component and in the service: seen as the claimDenialRate of a
\* calculation whose flag is not 'yes'.
C5_LookupDocumented ==
    (Calculated /\ formData.knowDenialRate # Key("yes")) =>
        /\ ComponentMetrics.claimDenialRate = C5_Documented(formData.specialty)
        /\ ServiceMetrics.claimDenialRate = C5_Documented(formData.specialty)
        /\ estimateDenialRate(formData.specialty) = svc_estimateDenialRate(formData.specialty)

\* inputs the validators of patientVolume, billingAverage and collectionRate accept
C6_Accepted(fd) ==
    /\ fd.patientVolume.t = "num" /\ fd.patientVolume.n >= Whole(1)
    /\ fd.billingAverage.t = "num" /\ fd.billingAverage.n >= 1
    /\ fd.collectionRate.t = "num"
    /\ fd.collectionRate.n >= Whole(1) /\ fd.collectionRate.n <= Whole(100)

C6_Multiplier(fd) ==
    IF fd.volumePeriod = Key("daily") THEN 30
    ELSE IF fd.volumePeriod = Key("weekly") THEN 4 ELSE 1

\* count x billingAverage x collectionRate / 100, to the nearest integer
C6_Revenue(count, fd) ==
    MathRound(Mul(Mul(count, Value(fd.billingAverage)),
                  Div(Value(fd.collectionRate), IntNum(100))))

\* C6 (as claimed): for every accepted input totalMonthlyClaims is
\* patientVolume x 30 (daily), x 4 (weekly) or x 1, and monthlyRevenue is that
\* count x billingAverage x collectionRate / 100 rounded to the nearest integer.
C6_Original ==
    (Calculated /\ C6_Accepted(formData)) =>
        LET count == Mul(Value(formData.patientVolume), IntNum(C6_Multiplier(formData)))
        IN  /\ ComponentMetrics.totalMonthlyClaims = count
            /\ ComponentMetrics.monthlyRevenue = C6_Revenue(count, formData)

\* C6 (amended): the same with the whole-number part of patientVolume
\* (parseInt) in place of patientVolume; 100, monthly, 150, 85 gives 100 and 12750.
C6_Amended ==
    (Calculated /\ C6_Accepted(formData)) =>
        LET count == (formData.patientVolume.n \div 100) * C6_Multiplier(formData)
        IN  /\ ComponentMetrics.totalMonthlyClaims = IntNum(count)
            /\ ComponentMetrics.monthlyRevenue = C6_Revenue(IntNum(count), formData)
            /\ (/\ formData.patientVolume = Num(Whole(100))
                /\ formData.volumePeriod = Key("monthly")
                /\ formData.billingAverage = Num(Whole(150))
                /\ formData.collectionRate = Num(Whole(85)))
               => /\ ComponentMetrics.totalMonthlyClaims = IntNum(100)
                  /\ ComponentMetrics.monthlyRevenue = IntNum(12750)

\* C6 witness: a calculation for a daily volume of 2.5 patients: 2 x 30 claims
C6_Witness ==
    /\ Calculated
    /\ C6_Accepted(formData)
    /\ formData.patientVolume = Num(250)
    /\ formData.volumePeriod = Key("daily")
    /\ ComponentMetrics.totalMonthlyClaims = IntNum(60)

\* a numeric, nonzero value, or the default
C7_OrDefault(v, whole, default) ==
    IF v.t # "num" THEN IntNum(default)
    ELSE IF whole THEN (IF v.n \div 100 = 0 THEN IntNum(default) ELSE IntNum(v.n \div 100))
    ELSE (IF v.n = 0 THEN IntNum(default) ELSE Value(v))

\* the field of the selected pricing type
C7_PriceField(fd) ==
    CASE fd.outsourcePricing = Key("percentage") -> fd.percentageValue
      [] fd.outsourcePricing = Key("perClaim") -> fd.perClaimValue
      [] fd.outsourcePricing = Key("monthly") -> fd.monthlyValue
      [] fd.outsourcePricing = Key("hourly") -> fd.hourlyValue
      [] OTHER -> Empty

\* the decision table for staff wages, staff count and pricing value
C7_Table(fd, wages, count, price) ==
    CASE fd.processingType = Key("inhouse") /\ fd.wageType = Key("hourly") ->
            Mul(Mul(wages, IntNum(160)), count)
      [] fd.processingType = Key("inhouse") /\ fd.wageType # Key("hourly") ->
            Mul(wages, count)
      [] fd.processingType = Key("outsource") /\ fd.outsourcePricing = Key("percentage") ->
            Div(Mul(monthlyRevenue(fd), price), IntNum(100))
      [] fd.processingType = Key("outsource") /\ fd.outsourcePricing = Key("perClaim") ->
            Mul(totalMonthlyClaims(fd), price)
      [] fd.processingType = Key("outsource") /\ fd.outsourcePricing = Key("monthly") ->
            price
      [] fd.processingType = Key("outsource") /\ fd.outsourcePricing = Key("hourly") ->
            Mul(price, IntNum(160))
      [] OTHER -> IntNum(0)

\* the fields the table reads for this input hold numbers
C7_Numeric(fd) ==
    /\ fd.processingType = Key("inhouse")
        => fd.staffWages.t = "num" /\ fd.staffCount.t = "num"
    /\ fd.processingType = Key("outsource") => C7_PriceField(fd).t = "num"

\* C7 (as claimed): monthlyProcessingCost is the decision table's value for
\* staffWages, staffCount and the field of the selected pricing type.
C7_Original ==
    (Calculated /\ C7_Numeric(formData)) =>
        ComponentMetrics.monthlyProcessingCost =
            C7_Table(formData, Value(formData.staffWages), Value(formData.staffCount),
                     Value(C7_PriceField(formData)))

\* C7 (amended): monthlyProcessingCost is the decision table's value rounded
\* to the nearest integer, for staffWages (4000 when missing or zero), the
\* whole-number part of staffCount (2 when missing or zero) and the field of
\* the selected pricing type (0 when missing), and 0 when there is no
\* processing type or no pricing type; 4000 x 2 gives 8000 and 100 x 5 gives 500.
C7_Amended ==
    Calculated =>
        /\ ComponentMetrics.monthlyProcessingCost =
               MathRound(C7_Table(formData,
                                  C7_OrDefault(formData.staffWages, FALSE, 4000),
                                  C7_OrDefault(formData.staffCount, TRUE, 2),
                                  C7_OrDefault(C7_PriceField(formData), FALSE, 0)))
        /\ (/\ formData.processingType = Key("inhouse")
            /\ formData.wageType = Key("monthly")
            /\ formData.staffWages = Num(Whole(4000))
            /\ formData.staffCount = Num(Whole(2)))
           => ComponentMetrics.monthlyProcessingCost = IntNum(8000)
        /\ (/\ formData.processingType = Key("outsource")
            /\ formData.outsourcePricing = Key("perClaim")
            /\ formData.perClaimValue = Num(Whole(5))
            /\ ComponentMetrics.totalMonthlyClaims = IntNum(100))
           => ComponentMetrics.monthlyProcessingCost = IntNum(500)

\* C7 witness: an outsourced per-claim calculation with all four pricing
\* fields filled in: 100 claims at 5 cost 500
C7_Witness ==
    /\ Calculated
    /\ formData.processingType = Key("outsource")
    /\ formData.outsourcePricing = Key("perClaim")
    /\ formData.percentageValue # Empty /\ formData.perClaimValue = Num(Whole(5))
    /\ formData.monthlyValue # Empty /\ formData.hourlyValue # Empty
    /\ ComponentMetrics.totalMonthlyClaims = IntNum(100)
    /\ ComponentMetrics.monthlyProcessingCost = IntNum(500)

\* C8 (as claimed): with patientVolume 0 or empty the division is by a claim
\* count of zero and costPerClaim is not a finite number.
C8_Original ==
    (Calculated /\ formData.patientVolume \in {Empty, Num(0)}) =>
        /\ ComponentMetrics.totalMonthlyClaims = IntNum(0)
        /\ ~IsNum(ComponentMetrics.costPerClaim)

\* C8 (amended): the claim count at the division is never zero: a
\* patientVolume that is 0 or empty is replaced by 100, so the count is 100,
\* 400 or 3000 and costPerClaim is monthlyProcessingCost divided by it, to two
\* decimals.  Component and service alike.
C8_Amended ==
    Calculated =>
        /\ IsNum(ComponentMetrics.totalMonthlyClaims)
        /\ ComponentMetrics.totalMonthlyClaims # IntNum(0)
        /\ IsNum(ServiceMetrics.totalMonthlyClaims)
        /\ ServiceMetrics.totalMonthlyClaims # IntNum(0)
        /\ formData.patientVolume \in {Empty, Num(0)} =>
              /\ ComponentMetrics.totalMonthlyClaims = IntNum(100 * C6_Multiplier(formData))
              /\ ServiceMetrics.totalMonthlyClaims = IntNum(100 * C6_Multiplier(formData))
              /\ IsNum(ComponentMetrics.costPerClaim)
              /\ ComponentMetrics.costPerClaim =
                    RoundTo(Div(monthlyProcessingCost(formData),
                                IntNum(100 * C6_Multiplier(formData))), 100)
              /\ ServiceMetrics.costPerClaim = ComponentMetrics.costPerClaim

\* C8 witness: patientVolume 0 with two in-house staff at 4000 a month: 8000
\* over 100 claims
C8_Witness ==
    /\ Calculated
    /\ formData.patientVolume = Num(0)
    /\ formData.processingType = Key("inhouse")
    /\ ComponentMetrics.monthlyProcessingCost = IntNum(8000)
    /\ ComponentMetrics.costPerClaim = IntNum(80)

----------------------------------------------------------------------------
(* Claims about the ZIP/PIN checks (SpecZip) *)

Validated == zipErrors # <<>>
ComponentAccepts == zipErrors[1] = {}
ServiceAccepts == locationValid[1]

\* 5 digits, 5 digits '-' 4 digits, or 6 digits
C9_Shape(s) ==
    \/ Len(s) \in {5, 6} /\ \A i \in 1..Len(s) : s[i] \in Digits
    \/ Len(s) = 10 /\ s[6] = "-" /\ \A i \in (1..10) \ {6} : s[i] \in Digits

C9_Examples ==
    /\ zipCodeValidator(Str(<<"1", "2", "3", "4", "5">>)) = {}
    /\ zipCodeValidator(Str(<<"1", "2", "3", "4", "5", "-", "6", "7", "8", "9">>)) = {}
    /\ zipCodeValidator(Str(<<"5", "6", "0", "0", "0", "1">>)) = {}
    /\ zipCodeValidator(Str(<<"a", "b", "c", "1", "2">>)) = {"pattern"}
    /\ zipCodeValidator(Str(<<"1", "2", "3", "4">>)) = {"pattern"}

\* C9 (as claimed): a non-empty string is accepted exactly when it has one of
\* the three shapes, and zipCodeValidator and validateLocation give the same
\* answer for every string.
C9_Original ==
    Validated =>
        /\ pincodeInput # Empty => (ComponentAccepts <=> C9_Shape(pincodeInput.s))
        /\ ComponentAccepts <=> ServiceAccepts

\* C9 (amended): a non-empty string is accepted exactly when it has one of
\* the three shapes, by zipCodeValidator and by validateLocation alike; for
\* the empty string zipCodeValidator reports no error and validateLocation
\* answers false.
C9_Amended ==
    /\ C9_Examples
    /\ Validated =>
        /\ pincodeInput # Empty =>
              /\ ComponentAccepts <=> C9_Shape(pincodeInput.s)
              /\ ComponentAccepts <=> ServiceAccepts
        /\ pincodeInput = Empty => ComponentAccepts /\ ~ServiceAccepts

\* C9 witness: a ZIP+4 string was checked and accepted by both
C9_Witness ==
    /\ Validated
    /\ pincodeInput = Str(<<"1", "1", "1", "1", "1", "-", "1", "1", "1", "1">>)
    /\ ComponentAccepts /\ ServiceAccepts

----------------------------------------------------------------------------
(* Claims about the step navigation (SpecForm) *)

\* C1 (as claimed): currentStep is 1, 2 or 3 in every state reachable by
\* nextStep, previousStep, resetCalculator and form edits.
C1_StepWithinRange == currentStep \in {1, 2, 3}

\* the fields the claim lists for each step
C2_StepFields(step) ==
    CASE step = 1 -> {"address", "pincode", "specialty"}
      [] step = 2 -> {"patientVolume", "billingAverage", "collectionRate", "paymentTime"}
      [] step = 3 -> {"processingType"}

\* C2: on step 1, 2 or 3, nextStep adds 1 to currentStep when every field
\* listed for the step is valid and leaves it unchanged when one is invalid;
\* either way exactly those fields become touched and no form value changes.
C2_NextStepContract ==
    [][(nextStep /\ currentStep \in {1, 2, 3}) =>
        /\ (\A c \in C2_StepFields(currentStep) : errors[c] = {})
              => currentStep' = currentStep + 1
        /\ (\E c \in C2_StepFields(currentStep) : errors[c] # {})
              => currentStep' = currentStep
        /\ touched' = touched \cup C2_StepFields(currentStep)
        /\ values' = values]_vars

\* C2 witness: nextStep was accepted on step 1 and rejected on step 2
\* (billingAverage is still empty): step 2, both steps' fields touched
C2_Witness ==
    /\ currentStep = 2
    /\ touched = C2_StepFields(1) \cup C2_StepFields(2)
    /\ errors["billingAverage"] # {}

----------------------------------------------------------------------------
(* Claims about submissions (Spec) *)

\* C10 (as claimed): the result stored when a delay elapses is computed from
\* the form values of the moment that onSubmit call was made (the oldest
\* entry of pending), whatever was edited or reset in between.
C10_ResultFromSubmittedValues ==
    [][(pending # <<>> /\ pending' = Tail(pending)) =>
        calculationResult' = <<generateMockCalculation(Head(pending))>>]_vars

\* C13 (as claimed): after every operation formErrors holds, for each control
\* that has validation messages and is invalid and touched, the message of a
\* rule the control violates, and holds nothing for any other control.
C13_FormErrorsSurfaced ==
    \A c \in Controls :
        IF validationMessages[c] # {} /\ ~Valid(errors, c) /\ c \in touched
            THEN formErrors[c] \in errors[c] \cap validationMessages[c]
            ELSE formErrors[c] = ""

C15_ResetCancelsPending ==
    sinceReset => calculationResult = NoResult /\ currentStep = 1

\* C16 (as claimed): with processingType 'inhouse', staffWages and staffCount
\* valid and every step 1 and step 2 field valid (denialRate included), the
\* whole form is valid, so that onSubmit proceeds, whatever was selected or
\* left empty among the outsourcing fields; and with processingType
\* 'outsource', staffWages and staffCount carry no validators.
C16_ValidityFollowsSelectedModel ==
    /\ (/\ values["processingType"] = Key("inhouse")
        /\ Valid(errors, "processingType")
        /\ Valid(errors, "staffWages") /\ Valid(errors, "staffCount")
        /\ \A c \in getStepFields(1) \cup getStepFields(2) : Valid(errors, c)
        /\ Valid(errors, "denialRate"))
       => FormValid
    /\ values["processingType"] = Key("outsource")
       => validators["staffWages"] = {} /\ validators["staffCount"] = {}

\* C17 (as claimed): nextStep leaves step 1, 2 or 3 only when isStep1Valid,
\* isStep2Valid or isStep3Valid, respectively, is true.
C17_AdvanceOnlyWhenStepValid ==
    [][(nextStep /\ currentStep \in {1, 2, 3} /\ currentStep' = currentStep + 1) =>
        CASE currentStep = 1 -> isStep1Valid
          [] currentStep = 2 -> isStep2Valid
          [] currentStep = 3 -> isStep3Valid]_vars

\* C18 (as claimed): isLoading is true exactly while an onSubmit call that
\* passed the validity check has not yet run its finally block.
C18_LoadingWhilePending == isLoading <=> pending # <<>>

----------------------------------------------------------------------------
(* Claims about the nearby providers (SpecProviders) *)

\* the static provider list: names in the order written, base ratios in tenths
C12_StaticNames == <<"Regional Medical Center", "Community Health Partners",
                     "Advanced Care Clinic", "Premier Healthcare Group",
                     "Integrated Health Solutions">>
C12_StaticTenths == <<942, 918, 895, 961, 887>>

\* base + (draw - 1/2) x 4, in tenths, rounded half up
C12_Perturbed(tenths, draw) ==
    (2 * (tenths * draw.d + 40 * draw.n - 20 * draw.d) + draw.d) \div (2 * draw.d)

\* a provider list is the static list in the order the shuffle chose, no entry
\* twice, each ratio moved by its drawn offset, within 2 points of its base
\* and rounded to one decimal
C12_Shuffled(providers) ==
    /\ \A i \in DOMAIN providers :
          LET p == providers[i]
              base == C12_StaticTenths[sortOrder[i]]
          IN  /\ p.name = C12_StaticNames[sortOrder[i]]
              /\ p.claimSuccessRatio = Rat(C12_Perturbed(base, randomDraws[i]), 10)
              /\ Between(Mul(p.claimSuccessRatio, IntNum(10)), base - 20, base + 20)
    /\ \A i, j \in DOMAIN providers : i # j => providers[i].name # providers[j].name

\* C12 (as claimed): the nearbyProviders of the component's result and of
\* the service's result are entries of the static list in the shuffled order,
\* none twice, each claimSuccessRatio perturbed by its random offset (within 2
\* points of the base value, one decimal).
C12_ProvidersShuffledAndPerturbed ==
    Calculated =>
        /\ C12_Shuffled(componentResult[1].nearbyProviders)
        /\ C12_Shuffled(serviceResult[1].nearbyProviders)

----------------------------------------------------------------------------
(* Claims about a calculation that may reject (SpecLive) *)

\* C11: a valid onSubmit sets isLoading, and isLoading always returns to
\* false, whether the calculation succeeds or throws; a success stores the
\* computed result; a throw leaves calculationResult unchanged and shows an
\* error notification, and every notification shown is removed later.
C11_LoadingEndsEitherWay ==
    /\ [][(onSubmit /\ FormValid) => isLoading']_vars
    /\ isLoading ~> ~isLoading
    /\ [][(pending # <<>> /\ pending' = Tail(pending) /\ notified' = notified)
            => calculationResult' = <<generateMockCalculation(values)>>]_vars
    /\ [][(notified' # notified)
            => /\ calculationResult' = calculationResult
               /\ notified' \in notifications']_vars
    /\ \A n \in 1..MaxNotifications : (n \in notifications) ~> (n \notin notifications)

\* C11 witness: one calculation threw and another succeeded; the result is
\* stored, the notification is still shown, isLoading is back to false
C11_Witness ==
    /\ notified = 1 /\ 1 \in notifications
    /\ calculationResult # NoResult
    /\ pending = <<>> /\ ~isLoading

====
